---- MODULE Spec2Model ----
(***************************************************************************)
(* DocMind: document ingestion, metadata persistence, vector storage and   *)
(* retrieval-augmented query, as implemented by the layered application    *)
(* (controllers -> DocumentService / QueryService -> DocumentRepository)   *)
(* and by the legacy monolith (main.py -> RAGSystem).                      *)
(*                                                                         *)
(* A text is represented by its run-length encoding: a sequence of runs    *)
(* [ch, n] with n > 0 and no two adjacent runs of the same character.      *)
(* Slicing, length and strip() are computed on that representation.        *)
(*                                                                         *)
(* A handler runs without yielding except at an await.  The delete, reset  *)
(* and query handlers have none and are one action each; an upload handler *)
(* is two: up to `content = await file.read()`, where other handlers may   *)
(* run, and from there to its response.  A handler's inputs are the        *)
(* request and a fault: the backend call (embedding, collection, file,     *)
(* generation) that raises during the request, if any.                     *)
(*                                                                         *)
(* Four specifications share the operators that model the code:            *)
(*   Spec         requests on either application, one upload in flight     *)
(*   SpecChunker  _chunk_text run pass by pass on small texts              *)
(*   SpecTwin     RAGSystem and the layered services driven side by side   *)
(*   SpecConc     concurrent requests scheduled by the event loop          *)
(***************************************************************************)
EXTENDS Integers, Sequences, FiniteSets, TLC

VARIABLES app, documents, metadata_file, chunks, collection_live, next_id,
          calls, last, chunker, twin, conc

\* the state the request handlers of one application work on
app_vars == <<app, documents, metadata_file, chunks, collection_live, next_id,
              calls, last>>

\* chunker: one run of _chunk_text, statement by statement
\* twin:    a RAGSystem driven side by side with the layered services
\* conc:    the requests in flight on the event loop
aux == <<chunker, twin, conc>>

vars == <<app, documents, metadata_file, chunks, collection_live, next_id,
          calls, last, chunker, twin, conc>>

----------------------------------------------------------------------------
(* Settings and bounds *)

CHUNK_SIZE == 1000
CHUNK_OVERLAP == 200

\* number of upload_document / add_document calls in a run (uuid4 draws)
MaxUploads == 2
\* largest top_k a query asks for
MaxTopK == 2

Min(a, b) == IF a < b THEN a ELSE b
Max(a, b) == IF a > b THEN a ELSE b

----------------------------------------------------------------------------
(* Texts *)

\* A character of a text is its code point, ord(c): 120 is "x", 32 the
\* space.  (A character of a file name or of a message is a one-character
\* string.)

\* the characters str.strip() removes, those for which str.isspace() holds:
\*   9..13         tab, line feed, vertical tab, form feed, carriage return
\*   28..31        file, group, record and unit separator
\*   32, 133, 160  space, next line, no-break space
\*   5760          ogham space mark
\*   8192..8202    en quad .. hair space
\*   8232, 8233    line separator, paragraph separator
\*   8239, 8287    narrow no-break space, medium mathematical space
\*   12288         ideographic space
Whitespace ==
  (9..13) \cup (28..32) \cup {133, 160, 5760} \cup (8192..8202)
    \cup {8232, 8233, 8239, 8287, 12288}

UpperCase ==
  <<"A", "B", "C", "D", "E", "F", "G", "H", "I", "J", "K", "L", "M",
    "N", "O", "P", "Q", "R", "S", "T", "U", "V", "W", "X", "Y", "Z">>
LowerCase ==
  <<"a", "b", "c", "d", "e", "f", "g", "h", "i", "j", "k", "l", "m",
    "n", "o", "p", "q", "r", "s", "t", "u", "v", "w", "x", "y", "z">>

\* str.lower() of one character (the letters A to Z; the names and messages
\* of the model hold no other cased character)
LowerOf ==
  [c \in {UpperCase[i] : i \in 1..Len(UpperCase)} |->
     LowerCase[CHOOSE i \in 1..Len(UpperCase) : UpperCase[i] = c]]

LowerChar(c) == IF c \in DOMAIN LowerOf THEN LowerOf[c] ELSE c

\* str.lower() of a sequence of characters
lower(name) == [i \in 1..Len(name) |-> LowerChar(name[i])]

Run(c, n) == [ch |-> c, n |-> n]

RECURSIVE TextLen(_)
\* len(text)
TextLen(t) == IF t = <<>> THEN 0 ELSE Head(t).n + TextLen(Tail(t))

RECURSIVE Slice(_, _, _)
\* text[a:b] for 0 <= a: the characters at 0-based positions a .. b-1,
\* clipped to the end of the text
Slice(t, a, b) ==
  IF t = <<>> \/ b <= 0 THEN <<>>
  ELSE LET r == Head(t)
           lo == Max(a, 0)
           hi == Min(b, r.n)
           rest == Slice(Tail(t), a - r.n, b - r.n)
       IN  IF hi > lo THEN <<Run(r.ch, hi - lo)>> \o rest ELSE rest

\* text1 + text2
Concat(s, t) ==
  IF s = <<>> THEN t
  ELSE IF t = <<>> THEN s
  ELSE IF s[Len(s)].ch = t[1].ch
       THEN SubSeq(s, 1, Len(s) - 1)
              \o <<Run(t[1].ch, s[Len(s)].n + t[1].n)>>
              \o Tail(t)
       ELSE s \o t

\* not text.strip(): nothing but whitespace
IsBlank(t) == \A i \in 1..Len(t) : t[i].ch \in Whitespace

----------------------------------------------------------------------------
(* Exceptions.  A message is the sequence of its characters.               *)

\* "PDF is encrypted. Please provide an unencrypted PDF."
MsgEncrypted ==
  <<"P", "D", "F", " ", "i", "s", " ", "e", "n", "c", "r", "y", "p", "t",
    "e", "d", ".", " ", "P", "l", "e", "a", "s", "e", " ", "p", "r", "o",
    "v", "i", "d", "e", " ", "a", "n", " ", "u", "n", "e", "n", "c", "r",
    "y", "p", "t", "e", "d", " ", "P", "D", "F", ".">>
\* "Could not extract any text from the PDF. This might be a scanned/image-based PDF."
MsgNoText ==
  <<"C", "o", "u", "l", "d", " ", "n", "o", "t", " ", "e", "x", "t", "r",
    "a", "c", "t", " ", "a", "n", "y", " ", "t", "e", "x", "t", " ", "f",
    "r", "o", "m", " ", "t", "h", "e", " ", "P", "D", "F", ".", " ", "T",
    "h", "i", "s", " ", "m", "i", "g", "h", "t", " ", "b", "e", " ", "a",
    " ", "s", "c", "a", "n", "n", "e", "d", "/", "i", "m", "a", "g", "e",
    "-", "b", "a", "s", "e", "d", " ", "P", "D", "F", ".">>
\* "Could not extract text from PDF"
MsgNoTextService ==
  <<"C", "o", "u", "l", "d", " ", "n", "o", "t", " ", "e", "x", "t", "r",
    "a", "c", "t", " ", "t", "e", "x", "t", " ", "f", "r", "o", "m", " ",
    "P", "D", "F">>
\* "Could not extract any text from the PDF. This might be a scanned/image-based PDF. Please provide a text-based PDF document."
MsgNoTextRAG ==
  <<"C", "o", "u", "l", "d", " ", "n", "o", "t", " ", "e", "x", "t", "r",
    "a", "c", "t", " ", "a", "n", "y", " ", "t", "e", "x", "t", " ", "f",
    "r", "o", "m", " ", "t", "h", "e", " ", "P", "D", "F", ".", " ", "T",
    "h", "i", "s", " ", "m", "i", "g", "h", "t", " ", "b", "e", " ", "a",
    " ", "s", "c", "a", "n", "n", "e", "d", "/", "i", "m", "a", "g", "e",
    "-", "b", "a", "s", "e", "d", " ", "P", "D", "F", ".", " ", "P", "l",
    "e", "a", "s", "e", " ", "p", "r", "o", "v", "i", "d", "e", " ", "a",
    " ", "t", "e", "x", "t", "-", "b", "a", "s", "e", "d", " ", "P", "D",
    "F", " ", "d", "o", "c", "u", "m", "e", "n", "t", ".">>
\* PdfReader on bytes that are not a readable PDF
\* "EOF marker not found"
MsgNotPdf ==
  <<"E", "O", "F", " ", "m", "a", "r", "k", "e", "r", " ", "n", "o", "t",
    " ", "f", "o", "u", "n", "d">>
\* PdfReader on a PDF whose encryption it cannot handle
\* "File is Encrypted with an unsupported algorithm"
MsgCipher ==
  <<"F", "i", "l", "e", " ", "i", "s", " ", "E", "n", "c", "r", "y", "p",
    "t", "e", "d", " ", "w", "i", "t", "h", " ", "a", "n", " ", "u", "n",
    "s", "u", "p", "p", "o", "r", "t", "e", "d", " ", "a", "l", "g", "o",
    "r", "i", "t", "h", "m">>
\* "embedding backend unavailable"
MsgEmbedding ==
  <<"e", "m", "b", "e", "d", "d", "i", "n", "g", " ", "b", "a", "c", "k",
    "e", "n", "d", " ", "u", "n", "a", "v", "a", "i", "l", "a", "b", "l",
    "e">>
\* "vector store unavailable"
MsgCollection ==
  <<"v", "e", "c", "t", "o", "r", " ", "s", "t", "o", "r", "e", " ", "u",
    "n", "a", "v", "a", "i", "l", "a", "b", "l", "e">>
\* "metadata.json cannot be written"
MsgFile ==
  <<"m", "e", "t", "a", "d", "a", "t", "a", ".", "j", "s", "o", "n", " ",
    "c", "a", "n", "n", "o", "t", " ", "b", "e", " ", "w", "r", "i", "t",
    "t", "e", "n">>
\* "generation backend unavailable"
MsgGeneration ==
  <<"g", "e", "n", "e", "r", "a", "t", "i", "o", "n", " ", "b", "a", "c",
    "k", "e", "n", "d", " ", "u", "n", "a", "v", "a", "i", "l", "a", "b",
    "l", "e">>

\* "Only PDF and TXT files are supported"
MsgOnlyPdfTxt ==
  <<"O", "n", "l", "y", " ", "P", "D", "F", " ", "a", "n", "d", " ", "T",
    "X", "T", " ", "f", "i", "l", "e", "s", " ", "a", "r", "e", " ", "s",
    "u", "p", "p", "o", "r", "t", "e", "d">>
\* "Only PDF files are supported"
MsgOnlyPdf ==
  <<"O", "n", "l", "y", " ", "P", "D", "F", " ", "f", "i", "l", "e", "s",
    " ", "a", "r", "e", " ", "s", "u", "p", "p", "o", "r", "t", "e", "d">>

\* the messages of backend failures
BackendMessages == {MsgEmbedding, MsgCollection, MsgFile, MsgGeneration}

\* "encrypted" in str(e).lower()
MentionsEncrypted(msg) ==
  LET sub == <<"e", "n", "c", "r", "y", "p", "t", "e", "d">>
  IN  \E i \in 1..(Len(msg) - Len(sub) + 1) :
        \A j \in 1..Len(sub) : LowerChar(msg[i + j - 1]) = sub[j]

NoExc == [type |-> "none", msg |-> <<>>]
Exc(t, m) == [type |-> t, msg |-> m]

----------------------------------------------------------------------------
(* Faults: the backend call that raises during a request *)

NoFault == [at |-> "none", k |-> 0]
FaultAt(a, k) == [at |-> a, k |-> k]
Fails(fault, a, k) == fault.at = a /\ fault.k = k

----------------------------------------------------------------------------
(* The store: the state one application instance works on.                 *)
(*   documents       self.documents, doc_id -> Document record             *)
(*   metadata_file   chroma_db/metadata.json: absent, a JSON object, or    *)
(*                   a truncated file that does not parse                  *)
(*   chunks          the records of the Chroma collection "documents"      *)
(*   collection_live the collection self.collection refers to exists       *)
(*   calls           backend calls made by the current request             *)

NoCalls == [extract |-> 0, embed |-> 0, add |-> 0, generate |-> 0]

Store == [documents |-> documents, metadata_file |-> metadata_file,
          chunks |-> chunks, collection_live |-> collection_live,
          calls |-> calls]

Called(s, what) == [s EXCEPT !.calls[what] = @ + 1]

EmptyDocuments == [k \in {} |-> 0]

\* json.dump(self.documents, f): the members of the JSON object
json_dump(d) == {<<k, d[k]>> : k \in DOMAIN d}

\* json.load(f)
json_load(obj) ==
  [k \in {m[1] : m \in obj} |-> (CHOOSE m \in obj : m[1] = k)[2]]

FileAbsent == [state |-> "absent", obj |-> {}]
FileCorrupt == [state |-> "corrupt", obj |-> {}]
FileOf(d) == [state |-> "ok", obj |-> json_dump(d)]

\* a chunk record of the collection
ChunkRecord(doc_id, filename, i, text) ==
  [id |-> <<doc_id, i>>, document |-> text,
   doc_id |-> doc_id, filename |-> filename, chunk_index |-> i]

\* a Document record
Metadata(doc_id, filename, now, n) ==
  [id |-> doc_id, filename |-> filename, uploaded_at |-> now,
   chunks_count |-> n]

----------------------------------------------------------------------------
(* DocumentRepository *)

\* _save_metadata: open(metadata_file, 'w') then json.dump.  A failing
\* open leaves the file as it was; a failing write leaves it truncated.
Repo_save_metadata(s, fault) ==
  IF fault.at = "open"
  THEN [st |-> s, exc |-> Exc("OSError", MsgFile)]
  ELSE IF fault.at = "write"
  THEN [st |-> [s EXCEPT !.metadata_file = FileCorrupt],
        exc |-> Exc("OSError", MsgFile)]
  ELSE [st |-> [s EXCEPT !.metadata_file = FileOf(s.documents)],
        exc |-> NoExc]

\* _load_metadata that never reads the file
Repo_load_metadata_NoRead(file) == EmptyDocuments

\* _load_metadata, called on self.documents = {}
Repo_load_metadata(file) ==
  IF file.state = "ok" THEN json_load(file.obj) ELSE EmptyDocuments

\* __init__: get_or_create_collection, then load the metadata
Repo_init(s) ==
  [s EXCEPT !.collection_live = TRUE,
            !.documents = Repo_load_metadata(s.metadata_file),
            !.calls = NoCalls]

RECURSIVE Repo_add_chunks_from(_, _, _, _, _, _)
\* the loop of add_chunks from index i on
Repo_add_chunks_from(s, doc_id, filename, cs, fault, i) ==
  IF i >= Len(cs)
  THEN [st |-> s, exc |-> NoExc, ret |-> Len(cs)]
  ELSE LET s1 == Called(s, "embed") IN
       IF Fails(fault, "embed", i)
       THEN [st |-> s1, exc |-> Exc("Exception", MsgEmbedding), ret |-> 0]
       ELSE LET s2 == Called(s1, "add") IN
            IF Fails(fault, "add", i) \/ ~s.collection_live
            THEN [st |-> s2, exc |-> Exc("Exception", MsgCollection), ret |-> 0]
            ELSE Repo_add_chunks_from(
                   [s2 EXCEPT !.chunks =
                      @ \cup {ChunkRecord(doc_id, filename, i, cs[i + 1])}],
                   doc_id, filename, cs, fault, i + 1)

\* add_chunks
Repo_add_chunks(s, doc_id, filename, cs, fault) ==
  Repo_add_chunks_from(s, doc_id, filename, cs, fault, 0)

\* save_document_metadata
Repo_save_document_metadata(s, doc_id, metadata, fault) ==
  Repo_save_metadata(
    [s EXCEPT !.documents =
       [k \in DOMAIN @ \cup {doc_id} |-> IF k = doc_id THEN metadata ELSE @[k]]],
    fault)

\* get_all_documents: list(self.documents.values()), order unspecified
Repo_get_all_documents(s) == {s.documents[k] : k \in DOMAIN s.documents}

\* collection.get(where={"doc_id": doc_id})['ids']
ChunkIdsOf(s, doc_id) == {c.id : c \in {c \in s.chunks : c.doc_id = doc_id}}

\* delete_document that forgets collection.delete
Repo_delete_document_KeepChunks(s, doc_id, fault) ==
  IF doc_id \notin DOMAIN s.documents
  THEN [st |-> s, exc |-> NoExc, ret |-> FALSE]
  ELSE IF fault.at = "get" \/ ~s.collection_live
  THEN [st |-> s, exc |-> Exc("Exception", MsgCollection), ret |-> FALSE]
  ELSE LET s1 == [s EXCEPT
                    !.documents = [k \in DOMAIN @ \ {doc_id} |-> @[k]]]
           sv == Repo_save_metadata(s1, fault)
       IN  [st |-> sv.st, exc |-> sv.exc, ret |-> sv.exc = NoExc]

\* delete_document that removes the chunks before it looks the id up
Repo_delete_document_DeleteFirst(s, doc_id, fault) ==
  LET ids == ChunkIdsOf(s, doc_id)
      s0 == [s EXCEPT !.chunks = {c \in @ : c.id \notin ids}]
  IN  IF fault.at = "get" \/ ~s.collection_live
      THEN [st |-> s, exc |-> Exc("Exception", MsgCollection), ret |-> FALSE]
      ELSE IF ids # {} /\ fault.at = "delete"
      THEN [st |-> s, exc |-> Exc("Exception", MsgCollection), ret |-> FALSE]
      ELSE IF doc_id \notin DOMAIN s.documents
      THEN [st |-> s0, exc |-> NoExc, ret |-> FALSE]
      ELSE LET s1 == [s0 EXCEPT
                        !.documents = [k \in DOMAIN @ \ {doc_id} |-> @[k]]]
               sv == Repo_save_metadata(s1, fault)
           IN  [st |-> sv.st, exc |-> sv.exc, ret |-> sv.exc = NoExc]

\* delete_document
Repo_delete_document(s, doc_id, fault) ==
  IF doc_id \notin DOMAIN s.documents
  THEN [st |-> s, exc |-> NoExc, ret |-> FALSE]
  ELSE IF fault.at = "get" \/ ~s.collection_live
  THEN [st |-> s, exc |-> Exc("Exception", MsgCollection), ret |-> FALSE]
  ELSE LET ids == ChunkIdsOf(s, doc_id) IN
       IF ids # {} /\ fault.at = "delete"
       THEN [st |-> s, exc |-> Exc("Exception", MsgCollection), ret |-> FALSE]
       ELSE LET s1 == [s EXCEPT
                         !.chunks = {c \in @ : c.id \notin ids},
                         !.documents = [k \in DOMAIN @ \ {doc_id} |-> @[k]]]
                sv == Repo_save_metadata(s1, fault)
            IN  [st |-> sv.st, exc |-> sv.exc, ret |-> sv.exc = NoExc]

\* delete_all: every exception is caught and turned into False
Repo_delete_all(s, fault) ==
  IF fault.at = "delete_collection" \/ ~s.collection_live
  THEN [st |-> s, exc |-> NoExc, ret |-> FALSE]
  ELSE LET s1 == [s EXCEPT !.chunks = {}] IN
       IF fault.at = "create_collection"
       THEN [st |-> [s1 EXCEPT !.collection_live = FALSE],
             exc |-> NoExc, ret |-> FALSE]
       ELSE LET sv == Repo_save_metadata(
                        [s1 EXCEPT !.documents = EmptyDocuments], fault)
            IN  [st |-> sv.st, exc |-> NoExc, ret |-> sv.exc = NoExc]

\* search: collection.query(n_results=top_k).  The ranking depends on the
\* embeddings, which the backend decides: any top_k records may come back,
\* all of them when the collection holds fewer.
Repo_search(s, top_k) ==
  {h \in SUBSET s.chunks : Cardinality(h) = Min(top_k, Cardinality(s.chunks))}

----------------------------------------------------------------------------
(* Uploaded files.  A PDF is its encryption flag and its pages; a page     *)
(* yields text, yields None, or makes extract_text() raise.  Any other     *)
(* content is plain text, which PdfReader cannot read.                     *)

PageText(t) == [kind |-> "text", text |-> t]
PageNone == [kind |-> "none", text |-> <<>>]
PageError == [kind |-> "error", text |-> <<>>]

RECURSIVE PagesText(_)
\* the loop over reader.pages: text += page.extract_text() or "", a page
\* that raises is skipped
PagesText(pages) ==
  IF pages = <<>> THEN <<>>
  ELSE Concat(IF Head(pages).kind = "text" THEN Head(pages).text ELSE <<>>,
              PagesText(Tail(pages)))

\* the message of the PdfReadError PdfReader(io.BytesIO(file_content)) raises
ReaderMessage(content) ==
  IF content.fmt = "cipher" THEN MsgCipher ELSE MsgNotPdf

\* _extract_text_from_pdf without the is_encrypted check
Service_extract_text_from_pdf_NoEncryptionCheck(content) ==
  IF content.fmt # "pdf"
  THEN [exc |-> Exc("PdfReadError", ReaderMessage(content)),
              text |-> <<>>]
  ELSE LET text == PagesText(content.pages) IN
       IF IsBlank(text)
       THEN [exc |-> Exc("ValueError", MsgNoText), text |-> <<>>]
       ELSE [exc |-> NoExc, text |-> text]

\* DocumentService._extract_text_from_pdf
Service_extract_text_from_pdf(content) ==
  LET body ==
        IF content.fmt # "pdf"
        THEN [exc |-> Exc("PdfReadError", ReaderMessage(content)),
              text |-> <<>>]
        ELSE IF content.encrypted
        THEN [exc |-> Exc("ValueError", MsgEncrypted), text |-> <<>>]
        ELSE LET text == PagesText(content.pages) IN
             IF IsBlank(text)
             THEN [exc |-> Exc("ValueError", MsgNoText), text |-> <<>>]
             ELSE [exc |-> NoExc, text |-> text]
  IN  IF body.exc # NoExc /\ MentionsEncrypted(body.exc.msg)
      THEN [exc |-> Exc("ValueError", MsgEncrypted), text |-> <<>>]
      ELSE body

RECURSIVE chunk_text_from(_, _, _, _)
\* the while loop of _chunk_text from position start on
chunk_text_from(text, start, chunk_size, overlap) ==
  IF start >= TextLen(text) THEN <<>>
  ELSE LET end == start + chunk_size
           chunk == Slice(text, start, end)
       IN  (IF ~IsBlank(chunk) THEN <<chunk>> ELSE <<>>)
             \o chunk_text_from(text, end - overlap, chunk_size, overlap)

\* DocumentService._chunk_text
Service_chunk_text(text) == chunk_text_from(text, 0, CHUNK_SIZE, CHUNK_OVERLAP)

NoDocument == Metadata(0, <<>>, 0, 0)

\* upload_document that saves the metadata in a finally clause
Service_upload_document_SaveAnyway(s, doc_id, now, filename, content, fault) ==
  LET ex == Service_extract_text_from_pdf(content)
      s1 == Called(s, "extract")
  IN  IF ex.exc # NoExc
      THEN [st |-> s1, exc |-> ex.exc, ret |-> NoDocument]
      ELSE LET cs == Service_chunk_text(ex.text)
               ad == Repo_add_chunks(s1, doc_id, filename, cs, fault)
               metadata == Metadata(doc_id, filename, now, Len(cs))
               sv == Repo_save_document_metadata(ad.st, doc_id, metadata,
                                                 fault)
           IN  IF ad.exc # NoExc
               THEN [st |-> sv.st, exc |-> ad.exc, ret |-> NoDocument]
               ELSE [st |-> sv.st, exc |-> sv.exc,
                     ret |-> IF sv.exc = NoExc THEN metadata ELSE NoDocument]

\* DocumentService.upload_document; doc_id is the uuid4 drawn, now the clock
Service_upload_document(s, doc_id, now, filename, content, fault) ==
  LET ex == Service_extract_text_from_pdf(content)
      s1 == Called(s, "extract")
  IN  IF ex.exc # NoExc
      THEN [st |-> s1, exc |-> ex.exc, ret |-> NoDocument]
      ELSE IF IsBlank(ex.text)
      THEN [st |-> s1, exc |-> Exc("ValueError", MsgNoTextService),
            ret |-> NoDocument]
      ELSE LET cs == Service_chunk_text(ex.text)
               ad == Repo_add_chunks(s1, doc_id, filename, cs, fault)
           IN  IF ad.exc # NoExc
               THEN [st |-> ad.st, exc |-> ad.exc, ret |-> NoDocument]
               ELSE LET metadata == Metadata(doc_id, filename, now, Len(cs))
                        sv == Repo_save_document_metadata(ad.st, doc_id,
                                                          metadata, fault)
                    IN  [st |-> sv.st, exc |-> sv.exc,
                         ret |-> IF sv.exc = NoExc THEN metadata
                                 ELSE NoDocument]

\* DocumentService.delete_document
Service_delete_document(s, doc_id, fault) == Repo_delete_document(s, doc_id, fault)

\* DocumentService.delete_all_documents
Service_delete_all_documents(s, fault) == Repo_delete_all(s, fault)

AnswerNoDocuments == "I don't have any documents to answer from. Please upload some PDFs first."
AnswerGenerated == "response.text"

NoAnswer == [answer |-> "", sources |-> {}, context |-> {}]

\* QueryService.query; hits is what the search returns.  The answer records
\* the doc_ids of the chunks the context is built from.
Service_query(s, hits, fault) ==
  LET s1 == Called(s, "embed") IN
  IF Fails(fault, "embed", 0)
  THEN [st |-> s1, exc |-> Exc("Exception", MsgEmbedding), ret |-> NoAnswer]
  ELSE IF fault.at = "query" \/ ~s.collection_live
  THEN [st |-> s1, exc |-> Exc("Exception", MsgCollection), ret |-> NoAnswer]
  ELSE LET relevant_chunks == hits
           sources == {h.filename : h \in hits}
       IN  IF relevant_chunks = {}
           THEN [st |-> s1, exc |-> NoExc,
                 ret |-> [answer |-> AnswerNoDocuments, sources |-> {},
                          context |-> {}]]
           ELSE LET s2 == Called(s1, "generate") IN
                IF fault.at = "generate"
                THEN [st |-> s2, exc |-> Exc("Exception", MsgGeneration),
                      ret |-> NoAnswer]
                ELSE [st |-> s2, exc |-> NoExc,
                      ret |-> [answer |-> AnswerGenerated,
                               sources |-> sources,
                               context |-> {h.doc_id : h \in relevant_chunks}]]

----------------------------------------------------------------------------
(* RAGSystem, the legacy monolith *)

RAG_DEFAULT_CHUNK_SIZE == 1000
RAG_DEFAULT_OVERLAP == 200

\* RAGSystem._extract_text_from_pdf
RAG_extract_text_from_pdf(content) ==
  LET body ==
        IF content.fmt # "pdf"
        THEN [exc |-> Exc("PdfReadError", ReaderMessage(content)),
              text |-> <<>>]
        ELSE IF content.encrypted
        THEN [exc |-> Exc("ValueError", MsgEncrypted), text |-> <<>>]
        ELSE LET text == PagesText(content.pages) IN
             IF IsBlank(text)
             THEN [exc |-> Exc("ValueError", MsgNoTextRAG), text |-> <<>>]
             ELSE [exc |-> NoExc, text |-> text]
  IN  IF body.exc # NoExc /\ MentionsEncrypted(body.exc.msg)
      THEN [exc |-> Exc("ValueError", MsgEncrypted), text |-> <<>>]
      ELSE body

\* RAGSystem._chunk_text
RAG_chunk_text(text, chunk_size, overlap) ==
  chunk_text_from(text, 0, chunk_size, overlap)

\* RAGSystem._save_metadata
RAG_save_metadata(s, fault) ==
  IF fault.at = "open"
  THEN [st |-> s, exc |-> Exc("OSError", MsgFile)]
  ELSE IF fault.at = "write"
  THEN [st |-> [s EXCEPT !.metadata_file = FileCorrupt],
        exc |-> Exc("OSError", MsgFile)]
  ELSE [st |-> [s EXCEPT !.metadata_file = FileOf(s.documents)],
        exc |-> NoExc]

\* RAGSystem._load_metadata
RAG_load_metadata(file) ==
  IF file.state = "ok" THEN json_load(file.obj) ELSE EmptyDocuments

\* RAGSystem.__init__
RAG_init(s) ==
  [s EXCEPT !.collection_live = TRUE,
            !.documents = RAG_load_metadata(s.metadata_file),
            !.calls = NoCalls]

RECURSIVE RAG_add_document_from(_, _, _, _, _, _)
\* the embedding loop of add_document from index i on
RAG_add_document_from(s, doc_id, filename, cs, fault, i) ==
  IF i >= Len(cs)
  THEN [st |-> s, exc |-> NoExc]
  ELSE LET s1 == Called(s, "embed") IN
       IF Fails(fault, "embed", i)
       THEN [st |-> s1, exc |-> Exc("Exception", MsgEmbedding)]
       ELSE LET s2 == Called(s1, "add") IN
            IF Fails(fault, "add", i) \/ ~s.collection_live
            THEN [st |-> s2, exc |-> Exc("Exception", MsgCollection)]
            ELSE RAG_add_document_from(
                   [s2 EXCEPT !.chunks =
                      @ \cup {ChunkRecord(doc_id, filename, i, cs[i + 1])}],
                   doc_id, filename, cs, fault, i + 1)

\* RAGSystem.add_document
RAG_add_document(s, doc_id, now, filename, content, fault) ==
  LET ex == RAG_extract_text_from_pdf(content)
      s1 == Called(s, "extract")
  IN  IF ex.exc # NoExc
      THEN [st |-> s1, exc |-> ex.exc, ret |-> NoDocument]
      ELSE IF IsBlank(ex.text)
      THEN [st |-> s1, exc |-> Exc("ValueError", MsgNoTextService),
            ret |-> NoDocument]
      ELSE LET cs == RAG_chunk_text(ex.text, RAG_DEFAULT_CHUNK_SIZE,
                                    RAG_DEFAULT_OVERLAP)
               ad == RAG_add_document_from(s1, doc_id, filename, cs, fault, 0)
           IN  IF ad.exc # NoExc
               THEN [st |-> ad.st, exc |-> ad.exc, ret |-> NoDocument]
               ELSE LET metadata == Metadata(doc_id, filename, now, Len(cs))
                        sv == RAG_save_metadata(
                                [ad.st EXCEPT !.documents =
                                   [k \in DOMAIN @ \cup {doc_id} |->
                                      IF k = doc_id THEN metadata ELSE @[k]]],
                                fault)
                    IN  [st |-> sv.st, exc |-> sv.exc,
                         ret |-> IF sv.exc = NoExc THEN metadata
                                 ELSE NoDocument]

\* RAGSystem.query
RAG_query(s, hits, fault) ==
  LET s1 == Called(s, "embed") IN
  IF Fails(fault, "embed", 0)
  THEN [st |-> s1, exc |-> Exc("Exception", MsgEmbedding), ret |-> NoAnswer]
  ELSE IF fault.at = "query" \/ ~s.collection_live
  THEN [st |-> s1, exc |-> Exc("Exception", MsgCollection), ret |-> NoAnswer]
  ELSE LET relevant_chunks == hits
           sources == {h.filename : h \in hits}
       IN  IF relevant_chunks = {}
           THEN [st |-> s1, exc |-> NoExc,
                 ret |-> [answer |-> AnswerNoDocuments, sources |-> {},
                          context |-> {}]]
           ELSE LET s2 == Called(s1, "generate") IN
                IF fault.at = "generate"
                THEN [st |-> s2, exc |-> Exc("Exception", MsgGeneration),
                      ret |-> NoAnswer]
                ELSE [st |-> s2, exc |-> NoExc,
                      ret |-> [answer |-> AnswerGenerated,
                               sources |-> sources,
                               context |-> {h.doc_id : h \in relevant_chunks}]]

\* RAGSystem.get_all_documents
RAG_get_all_documents(s) == {s.documents[k] : k \in DOMAIN s.documents}

\* RAGSystem.delete_document
RAG_delete_document(s, doc_id, fault) ==
  IF doc_id \notin DOMAIN s.documents
  THEN [st |-> s, exc |-> NoExc, ret |-> FALSE]
  ELSE IF fault.at = "get" \/ ~s.collection_live
  THEN [st |-> s, exc |-> Exc("Exception", MsgCollection), ret |-> FALSE]
  ELSE LET ids == ChunkIdsOf(s, doc_id) IN
       IF ids # {} /\ fault.at = "delete"
       THEN [st |-> s, exc |-> Exc("Exception", MsgCollection), ret |-> FALSE]
       ELSE LET s1 == [s EXCEPT
                         !.chunks = {c \in @ : c.id \notin ids},
                         !.documents = [k \in DOMAIN @ \ {doc_id} |-> @[k]]]
                sv == RAG_save_metadata(s1, fault)
            IN  [st |-> sv.st, exc |-> sv.exc, ret |-> sv.exc = NoExc]

\* delete_all_documents that forgets _save_metadata
RAG_delete_all_documents_NoSave(s, fault) ==
  IF fault.at = "delete_collection" \/ ~s.collection_live
  THEN [st |-> s, exc |-> NoExc, ret |-> FALSE]
  ELSE LET s1 == [s EXCEPT !.chunks = {}] IN
       IF fault.at = "create_collection"
       THEN [st |-> [s1 EXCEPT !.collection_live = FALSE],
             exc |-> NoExc, ret |-> FALSE]
       ELSE [st |-> [s1 EXCEPT !.documents = EmptyDocuments],
             exc |-> NoExc, ret |-> TRUE]

\* RAGSystem.delete_all_documents
RAG_delete_all_documents(s, fault) ==
  IF fault.at = "delete_collection" \/ ~s.collection_live
  THEN [st |-> s, exc |-> NoExc, ret |-> FALSE]
  ELSE LET s1 == [s EXCEPT !.chunks = {}] IN
       IF fault.at = "create_collection"
       THEN [st |-> [s1 EXCEPT !.collection_live = FALSE],
             exc |-> NoExc, ret |-> FALSE]
       ELSE LET sv == RAG_save_metadata(
                        [s1 EXCEPT !.documents = EmptyDocuments], fault)
            IN  [st |-> sv.st, exc |-> NoExc, ret |-> sv.exc = NoExc]

----------------------------------------------------------------------------
(* Requests *)

endswith(name, suffix) ==
  /\ Len(name) >= Len(suffix)
  /\ SubSeq(name, Len(name) - Len(suffix) + 1, Len(name)) = suffix

ExtPdf == <<".", "p", "d", "f">>
ExtTxt == <<".", "t", "x", "t">>

NameA == <<"a", ".", "P", "D", "F">>
NameB == <<"b", ".", "p", "d", "f">>
NameN == <<"n", ".", "t", "x", "t">>
NameR == <<"r", ".", "d", "o", "c", "x">>

\* one page, one chunk
PdfOne == [fmt |-> "pdf", encrypted |-> FALSE,
           pages |-> <<PageText(<<Run(120, 2)>>)>>]
\* 2110 characters over four pages, one of which raises and one of which
\* yields None; the window at 800 is whitespace only
PdfGap == [fmt |-> "pdf", encrypted |-> FALSE,
           pages |-> <<PageText(<<Run(120, 100), Run(32, 900)>>), PageError,
                       PageNone,
                       PageText(<<Run(32, 1100), Run(120, 10)>>)>>]
PdfEncrypted == [fmt |-> "pdf", encrypted |-> TRUE,
                 pages |-> <<PageText(<<Run(120, 2)>>)>>]
\* a scanned PDF: spaces, a tab, carriage returns, a vertical tab, a file
\* separator, a no-break space and em spaces
PdfBlank == [fmt |-> "pdf", encrypted |-> FALSE,
             pages |-> <<PageText(<<Run(32, 3), Run(9, 1), Run(13, 2),
                                    Run(11, 1), Run(28, 1), Run(160, 1),
                                    Run(8195, 2)>>),
                         PageNone, PageError>>]
\* a PDF PdfReader gives up on with a message that mentions encryption
PdfCipher == [fmt |-> "cipher", encrypted |-> FALSE,
              pages |-> <<PageText(<<Run(120, 2)>>)>>]
\* 2500 characters of plain text, not a PDF
Plain2500 == [fmt |-> "plain", encrypted |-> FALSE,
              pages |-> <<PageText(<<Run(120, 2500)>>)>>]
\* a PDF cut off before its trailer: PdfReader cannot read it
PdfTruncated == [fmt |-> "truncated", encrypted |-> FALSE,
                 pages |-> <<PageText(<<Run(120, 2)>>)>>]

NoContent == [fmt |-> "", encrypted |-> FALSE, pages |-> <<>>]

File(name, content) == [filename |-> name, content |-> content]

\* the files a client uploads
Files ==
  { File(NameA, PdfOne), File(NameB, PdfGap), File(NameA, PdfEncrypted),
    File(NameB, PdfBlank), File(NameN, Plain2500), File(NameR, PdfOne),
    File(NameB, PdfTruncated), File(NameA, PdfCipher) }

\* index of the chunk whose embedding or storing fails
MaxFaultIndex == 1

UploadFaults ==
  {NoFault, FaultAt("open", 0), FaultAt("write", 0)}
    \cup {FaultAt(a, k) : a \in {"embed", "add"}, k \in 0..MaxFaultIndex}
DeleteFaults ==
  {NoFault, FaultAt("get", 0), FaultAt("delete", 0), FaultAt("open", 0),
   FaultAt("write", 0)}
ResetFaults ==
  {NoFault, FaultAt("delete_collection", 0), FaultAt("create_collection", 0),
   FaultAt("open", 0), FaultAt("write", 0)}
QueryFaults ==
  {NoFault, FaultAt("embed", 0), FaultAt("query", 0), FaultAt("generate", 0)}

\* the outcome of the last request: what the handler was given, what the
\* service returned or raised, and the HTTP status of the response
NoLast ==
  [op |-> "init", file |-> File(<<>>, NoContent), doc_id |-> 0,
   top_k |-> 0, exc |-> NoExc, status |-> 0,
   ret |-> "None", document |-> NoDocument, answer |-> NoAnswer]

Bool(b) == IF b THEN "True" ELSE "False"

Fresh == [Store EXCEPT !.calls = NoCalls]

Install(s) ==
  /\ documents' = s.documents
  /\ metadata_file' = s.metadata_file
  /\ chunks' = s.chunks
  /\ collection_live' = s.collection_live
  /\ calls' = s.calls

\* except ValueError -> 400, except Exception -> 500
UploadStatus(exc) ==
  IF exc = NoExc THEN 200 ELSE IF exc.type = "ValueError" THEN 400 ELSE 500

\* an extension check that lets every file name with a dot through
Controller_upload_accepts_AnyExtension(filename) ==
  \E i \in 1..Len(filename) : filename[i] = "."

\* controllers/document_controller.py upload_document
Controller_upload_accepts(filename) ==
  endswith(lower(filename), ExtPdf) \/ endswith(lower(filename), ExtTxt)

\* main.py upload_document
Main_upload_accepts(filename) == endswith(lower(filename), ExtPdf)

UploadRejected(file) ==
  /\ Install(Fresh)
  /\ UNCHANGED <<app, next_id>>
  /\ last' = [NoLast EXCEPT !.op = "upload", !.file = file,
                            !.exc = Exc("HTTPException",
                                        IF app = "layered"
                                        THEN MsgOnlyPdfTxt ELSE MsgOnlyPdf),
                            !.status = 400]

UploadProcessed(file, fault, r) ==
  /\ Install(r.st)
  /\ next_id' = next_id + 1
  /\ UNCHANGED app
  /\ last' = [NoLast EXCEPT !.op = "upload", !.file = file,
                            !.doc_id = next_id,
                            !.exc = r.exc,
                            !.status = UploadStatus(r.exc),
                            !.document = r.ret]

\* no upload handler is suspended
NoFile == File(<<>>, NoContent)
NoConc == [on |-> FALSE, reading |-> NoFile]

\* the handler is suspended at `content = await file.read()`: nothing has
\* been called or changed yet, and the event loop may run other handlers
UploadSuspended(file) ==
  /\ conc.reading = NoFile
  /\ next_id <= MaxUploads
  /\ conc' = [conc EXCEPT !.reading = file]
  /\ last' = [NoLast EXCEPT !.op = "await file.read()"]
  /\ UNCHANGED <<app, documents, metadata_file, chunks, collection_live,
                 next_id, calls, chunker, twin>>

\* POST /documents/upload of the layered application, up to
\* `await file.read()`
UploadStart(file) ==
  /\ app = "layered"
  /\ IF ~Controller_upload_accepts(file.filename)
     THEN UploadRejected(file) /\ UNCHANGED aux
     ELSE UploadSuspended(file)

\* POST /documents/upload of the layered application, from
\* `await file.read()` to the response
UploadResume(fault) ==
  /\ app = "layered"
  /\ conc.reading # NoFile
  /\ UploadProcessed(conc.reading, fault,
       Service_upload_document(Fresh, next_id, next_id,
                               conc.reading.filename, conc.reading.content,
                               fault))
  /\ conc' = [conc EXCEPT !.reading = NoFile]
  /\ UNCHANGED <<chunker, twin>>

\* POST /documents/upload of the legacy application, up to
\* `await file.read()`
MainUploadStart(file) ==
  /\ app = "legacy"
  /\ IF ~Main_upload_accepts(file.filename)
     THEN UploadRejected(file) /\ UNCHANGED aux
     ELSE UploadSuspended(file)

\* POST /documents/upload of the legacy application, from
\* `await file.read()` to the response
MainUploadResume(fault) ==
  /\ app = "legacy"
  /\ conc.reading # NoFile
  /\ UploadProcessed(conc.reading, fault,
       RAG_add_document(Fresh, next_id, next_id, conc.reading.filename,
                        conc.reading.content, fault))
  /\ conc' = [conc EXCEPT !.reading = NoFile]
  /\ UNCHANGED <<chunker, twin>>

\* DELETE /documents/{doc_id}: 404 when the service returns False; an
\* exception is not caught and becomes a 500
Delete(doc_id, fault) ==
  LET r == IF app = "layered" THEN Service_delete_document(Fresh, doc_id, fault)
           ELSE RAG_delete_document(Fresh, doc_id, fault)
  IN  /\ Install(r.st)
      /\ UNCHANGED <<app, next_id>>
      /\ UNCHANGED aux
      /\ last' = [NoLast EXCEPT
                    !.op = "delete", !.doc_id = doc_id,
                    !.exc = r.exc,
                    !.ret = IF r.exc = NoExc THEN Bool(r.ret) ELSE "None",
                    !.status = IF r.exc # NoExc THEN 500
                               ELSE IF r.ret THEN 200 ELSE 404]

\* POST /documents/reset
Reset(fault) ==
  LET r == IF app = "layered" THEN Service_delete_all_documents(Fresh, fault)
           ELSE RAG_delete_all_documents(Fresh, fault)
  IN  /\ Install(r.st)
      /\ UNCHANGED <<app, next_id>>
      /\ UNCHANGED aux
      /\ last' = [NoLast EXCEPT
                    !.op = "reset",
                    !.ret = Bool(r.ret),
                    !.status = IF r.ret THEN 200 ELSE 500]

\* POST /query
Query(top_k, fault) ==
  \E hits \in Repo_search(Store, top_k) :
    LET r == IF app = "layered" THEN Service_query(Fresh, hits, fault)
             ELSE RAG_query(Fresh, hits, fault)
    IN  /\ Install(r.st)
        /\ UNCHANGED <<app, next_id>>
        /\ UNCHANGED aux
        /\ last' = [NoLast EXCEPT
                      !.op = "query", !.top_k = top_k,
                      !.exc = r.exc, !.answer = r.ret,
                      !.status = IF r.exc = NoExc THEN 200 ELSE 500]

\* the process is restarted: a suspended handler is gone and the singleton
\* is built again over ./chroma_db
Restart ==
  /\ Install(IF app = "layered" THEN Repo_init(Store) ELSE RAG_init(Store))
  /\ UNCHANGED <<app, next_id>>
  /\ conc' = NoConc
  /\ UNCHANGED <<chunker, twin>>
  /\ last' = [NoLast EXCEPT !.op = "restart"]

\* no run of the chunker, no twin and no request in flight
NoChunker == [pc |-> "idle", text |-> <<>>, chunk_size |-> 0, overlap |-> 0,
              start |-> 0, chunks |-> <<>>, iterations |-> 0]
NoTwin == [on |-> FALSE]

\* an empty ./chroma_db and a freshly built singleton
InitStore ==
  /\ documents = EmptyDocuments
  /\ metadata_file = FileAbsent
  /\ chunks = {}
  /\ collection_live = TRUE
  /\ next_id = 1
  /\ calls = NoCalls
  /\ last = NoLast

Init ==
  /\ app \in {"layered", "legacy"}
  /\ InitStore
  /\ chunker = NoChunker
  /\ twin = NoTwin
  /\ conc = NoConc

Next ==
  \/ \E f \in Files : UploadStart(f)
  \/ \E x \in UploadFaults : UploadResume(x)
  \/ \E f \in Files : MainUploadStart(f)
  \/ \E x \in UploadFaults : MainUploadResume(x)
  \/ \E d \in 1..MaxUploads, x \in DeleteFaults : Delete(d, x)
  \/ \E x \in ResetFaults : Reset(x)
  \/ \E k \in 1..MaxTopK, x \in QueryFaults : Query(k, x)
  \/ Restart

Spec == Init /\ [][Next]_vars

----------------------------------------------------------------------------
(* The chunker, statement by statement.                                    *)
(* _chunk_text is run on every text of at most MaxTextLen characters and   *)
(* every (chunk_size, overlap) up to MaxChunkSize, the configurations the  *)
(* code does not reject included; one action is one pass of the while loop *)

\* longest text handed to the chunker
MaxTextLen == 4
\* largest chunk_size and overlap
MaxChunkSize == 3
\* passes of the while loop after which a run is no longer followed
MaxIterations == MaxTextLen + 2

\* "x", the space and the vertical tab
Chars == {120, 32, 11}

RECURSIVE Encode(_)
\* the text with the characters cs
Encode(cs) ==
  IF cs = <<>> THEN <<>> ELSE Concat(<<Run(Head(cs), 1)>>, Encode(Tail(cs)))

RECURSIVE Decode(_)
\* the characters of a text
Decode(t) ==
  IF t = <<>> THEN <<>>
  ELSE [i \in 1..Head(t).n |-> Head(t).ch] \o Decode(Tail(t))

Texts == {Encode(cs) : cs \in UNION {[1..n -> Chars] : n \in 0..MaxTextLen}}

\* text[a:b] as Python evaluates it: a negative index counts from the end
PySlice(t, a, b) ==
  LET norm(i) == IF i < 0 THEN Max(TextLen(t) + i, 0) ELSE i
  IN  Slice(t, norm(a), norm(b))

\* chunks = [], start = 0
chunk_text_enter(text, chunk_size, overlap) ==
  [pc |-> "while", text |-> text, chunk_size |-> chunk_size,
   overlap |-> overlap, start |-> 0, chunks |-> <<>>, iterations |-> 0]

\* a loop body that moves on by the whole window
chunk_text_body_NoOverlap(c) ==
  LET end == c.start + c.chunk_size
      chunk == PySlice(c.text, c.start, end)
  IN  [c EXCEPT !.chunks = IF ~IsBlank(chunk) THEN Append(@, chunk) ELSE @,
                !.start = end,
                !.iterations = @ + 1]

\* a loop body that moves on one character too far
chunk_text_body_SkipsOne(c) ==
  LET end == c.start + c.chunk_size
      chunk == PySlice(c.text, c.start, end)
  IN  [c EXCEPT !.chunks = IF ~IsBlank(chunk) THEN Append(@, chunk) ELSE @,
                !.start = end - c.overlap + 1,
                !.iterations = @ + 1]

\* one pass of the while loop of _chunk_text
chunk_text_body(c) ==
  LET end == c.start + c.chunk_size
      chunk == PySlice(c.text, c.start, end)
  IN  [c EXCEPT !.chunks = IF ~IsBlank(chunk) THEN Append(@, chunk) ELSE @,
                !.start = end - c.overlap,
                !.iterations = @ + 1]

\* while start < len(text): ...
ChunkIterate ==
  /\ chunker.pc = "while"
  /\ chunker.start < TextLen(chunker.text)
  /\ chunker.iterations < MaxIterations
  /\ chunker' = chunk_text_body(chunker)
  /\ UNCHANGED <<app_vars, twin, conc>>

\* return chunks
ChunkReturn ==
  /\ chunker.pc = "while"
  /\ ~(chunker.start < TextLen(chunker.text))
  /\ chunker' = [chunker EXCEPT !.pc = "return"]
  /\ UNCHANGED <<app_vars, twin, conc>>

InitChunker ==
  /\ app = "legacy"
  /\ InitStore
  /\ twin = NoTwin
  /\ conc = NoConc
  /\ \E text \in Texts, chunk_size \in (0 - 1)..MaxChunkSize,
        overlap \in 0..MaxChunkSize :
        chunker = chunk_text_enter(text, chunk_size, overlap)

NextChunker == ChunkIterate \/ ChunkReturn

SpecChunker == InitChunker /\ [][NextChunker]_vars

----------------------------------------------------------------------------
(* The two implementations side by side.                                   *)
(* The layered services work on the store of the application, a RAGSystem  *)
(* works on a store of its own (twin.store).  Every step hands the same    *)
(* call to both, with the same generated id, the same clock and the same   *)
(* backend outcome.                                                        *)

TwinFresh == [twin.store EXCEPT !.calls = NoCalls]

\* what the RAGSystem returned or raised
TwinResult(r, ret, document, answer) ==
  [on |-> TRUE, store |-> r.st, exc |-> r.exc, ret |-> ret,
   document |-> document, answer |-> answer]

\* DocumentService.upload_document and RAGSystem.add_document
TwinUpload(file, fault) ==
  LET a == Service_upload_document(Fresh, next_id, next_id, file.filename,
                                   file.content, fault)
      b == RAG_add_document(TwinFresh, next_id, next_id, file.filename,
                            file.content, fault)
  IN  /\ next_id <= MaxUploads
      /\ Install(a.st)
      /\ next_id' = next_id + 1
      /\ last' = [NoLast EXCEPT !.op = "upload", !.doc_id = next_id,
                                !.exc = a.exc, !.document = a.ret]
      /\ twin' = TwinResult(b, "None", b.ret, NoAnswer)
      /\ UNCHANGED <<app, chunker, conc>>

\* DocumentService.delete_document and RAGSystem.delete_document
TwinDelete(doc_id, fault) ==
  LET a == Service_delete_document(Fresh, doc_id, fault)
      b == RAG_delete_document(TwinFresh, doc_id, fault)
      result(r) == IF r.exc = NoExc THEN Bool(r.ret) ELSE "None"
  IN  /\ Install(a.st)
      /\ last' = [NoLast EXCEPT !.op = "delete", !.doc_id = doc_id,
                                !.exc = a.exc, !.ret = result(a)]
      /\ twin' = TwinResult(b, result(b), NoDocument, NoAnswer)
      /\ UNCHANGED <<app, next_id, chunker, conc>>

\* DocumentService.delete_all_documents and RAGSystem.delete_all_documents
TwinReset(fault) ==
  LET a == Service_delete_all_documents(Fresh, fault)
      b == RAG_delete_all_documents(TwinFresh, fault)
  IN  /\ Install(a.st)
      /\ last' = [NoLast EXCEPT !.op = "reset", !.ret = Bool(a.ret)]
      /\ twin' = TwinResult(b, Bool(b.ret), NoDocument, NoAnswer)
      /\ UNCHANGED <<app, next_id, chunker, conc>>

\* QueryService.query and RAGSystem.query; the two collections answer a
\* search alike when they hold the same records
TwinQuery(top_k, fault) ==
  \E ha \in Repo_search(Store, top_k), hb \in Repo_search(twin.store, top_k) :
    LET a == Service_query(Fresh, ha, fault)
        b == RAG_query(TwinFresh, hb, fault)
    IN  /\ twin.store.chunks = chunks => hb = ha
        /\ Install(a.st)
        /\ last' = [NoLast EXCEPT !.op = "query", !.top_k = top_k,
                                  !.exc = a.exc, !.answer = a.ret]
        /\ twin' = TwinResult(b, "None", NoDocument, b.ret)
        /\ UNCHANGED <<app, next_id, chunker, conc>>

\* both singletons are built again, each over its own directory
TwinRestart ==
  /\ Install(Repo_init(Store))
  /\ last' = [NoLast EXCEPT !.op = "restart"]
  /\ twin' = [on |-> TRUE, store |-> RAG_init(twin.store), exc |-> NoExc,
              ret |-> "None", document |-> NoDocument, answer |-> NoAnswer]
  /\ UNCHANGED <<app, next_id, chunker, conc>>

InitTwin ==
  /\ app = "layered"
  /\ InitStore
  /\ twin = [on |-> TRUE, store |-> Store, exc |-> NoExc, ret |-> "None",
             document |-> NoDocument, answer |-> NoAnswer]
  /\ chunker = NoChunker
  /\ conc = NoConc

NextTwin ==
  \/ \E f \in Files, x \in UploadFaults : TwinUpload(f, x)
  \/ \E d \in 1..MaxUploads, x \in DeleteFaults : TwinDelete(d, x)
  \/ \E x \in ResetFaults : TwinReset(x)
  \/ \E k \in 1..MaxTopK, x \in QueryFaults : TwinQuery(k, x)
  \/ TwinRestart

SpecTwin == InitTwin /\ [][NextTwin]_vars

----------------------------------------------------------------------------
(* Concurrent requests.                                                    *)
(* The handlers are coroutines (async def) on one event loop and the       *)
(* services they call are synchronous: a handler, once started, runs until *)
(* it awaits or ends.  upload_document awaits once, at file.read(), after  *)
(* the extension check and before the call of the service; the handlers of *)
(* delete and reset do not await.  The loop may start and resume the       *)
(* handlers of the requests in flight in any order.                        *)
(*   conc.requests  the requests accepted so far, by order of arrival      *)
(*   conc.uploaded  the ids of the uploads answered with 200               *)
(*   conc.deleted   the ids removed by a delete or a reset answered 200    *)
(*   conc.failed    a backend call of some request has raised              *)

\* requests accepted in a run
MaxRequests == 3

\* a request whose response has been sent
Answered == [kind |-> "answered", file |-> File(<<>>, NoContent),
             doc_id |-> 0, pc |-> "done"]

Request(kind, file, doc_id) ==
  [kind |-> kind, file |-> file, doc_id |-> doc_id, pc |-> "accepted"]

\* the files uploaded concurrently
ConcFiles == {File(NameA, PdfOne), File(NameB, PdfGap), File(NameR, PdfOne)}

\* the server accepts a connection; its handler is scheduled
ConcAccept(req) ==
  /\ Len(conc.requests) < MaxRequests
  /\ conc' = [conc EXCEPT !.requests = Append(@, req)]
  /\ UNCHANGED <<app_vars, chunker, twin>>

\* upload_document up to `await file.read()`
ConcUploadStart(r) ==
  LET req == conc.requests[r] IN
  /\ req.kind = "upload" /\ req.pc = "accepted"
  /\ IF ~Controller_upload_accepts(req.file.filename)
     THEN /\ UploadRejected(req.file)
          /\ conc' = [conc EXCEPT !.requests[r] = Answered]
     ELSE /\ conc' = [conc EXCEPT !.requests[r].pc = "await file.read()"]
          /\ UNCHANGED app_vars
  /\ UNCHANGED <<chunker, twin>>

\* upload_document from `await file.read()` to the response
ConcUploadResume(r, fault) ==
  LET req == conc.requests[r]
      res == Service_upload_document(Fresh, next_id, next_id,
                                     req.file.filename, req.file.content,
                                     fault)
  IN  /\ req.kind = "upload" /\ req.pc = "await file.read()"
      /\ next_id <= MaxUploads
      /\ UploadProcessed(req.file, fault, res)
      /\ conc' = [conc EXCEPT
                    !.requests[r] = Answered,
                    !.uploaded = IF res.exc = NoExc
                                 THEN @ \cup {next_id} ELSE @,
                    !.failed = @ \/ res.exc.msg \in BackendMessages]
      /\ UNCHANGED <<chunker, twin>>

\* delete_document, from the first statement to the response
ConcDelete(r, fault) ==
  LET req == conc.requests[r]
      res == Service_delete_document(Fresh, req.doc_id, fault)
  IN  /\ req.kind = "delete" /\ req.pc = "accepted"
      /\ Install(res.st)
      /\ last' = [NoLast EXCEPT
                    !.op = "delete", !.doc_id = req.doc_id,
                    !.exc = res.exc,
                    !.ret = IF res.exc = NoExc THEN Bool(res.ret) ELSE "None",
                    !.status = IF res.exc # NoExc THEN 500
                               ELSE IF res.ret THEN 200 ELSE 404]
      /\ conc' = [conc EXCEPT
                    !.requests[r] = Answered,
                    !.deleted = IF res.exc = NoExc /\ res.ret
                                THEN @ \cup {req.doc_id} ELSE @,
                    !.failed = @ \/ res.exc # NoExc]
      /\ UNCHANGED <<app, next_id, chunker, twin>>

\* reset_all_documents, from the first statement to the response
ConcReset(r, fault) ==
  LET req == conc.requests[r]
      res == Service_delete_all_documents(Fresh, fault)
  IN  /\ req.kind = "reset" /\ req.pc = "accepted"
      /\ Install(res.st)
      /\ last' = [NoLast EXCEPT
                    !.op = "reset",
                    !.ret = Bool(res.ret),
                    !.status = IF res.ret THEN 200 ELSE 500]
      /\ conc' = [conc EXCEPT
                    !.requests[r] = Answered,
                    !.deleted = IF res.ret THEN @ \cup DOMAIN documents
                                ELSE @,
                    !.failed = @ \/ ~res.ret]
      /\ UNCHANGED <<app, next_id, chunker, twin>>

InitConc ==
  /\ app = "layered"
  /\ InitStore
  /\ conc = [on |-> TRUE, requests |-> <<>>, uploaded |-> {}, deleted |-> {},
             failed |-> FALSE]
  /\ chunker = NoChunker
  /\ twin = NoTwin

NextConc ==
  \/ \E f \in ConcFiles : ConcAccept(Request("upload", f, 0))
  \/ \E d \in 1..MaxUploads :
       ConcAccept(Request("delete", File(<<>>, NoContent), d))
  \/ ConcAccept(Request("reset", File(<<>>, NoContent), 0))
  \/ \E r \in 1..Len(conc.requests) : ConcUploadStart(r)
  \/ \E r \in 1..Len(conc.requests), x \in UploadFaults :
       ConcUploadResume(r, x)
  \/ \E r \in 1..Len(conc.requests), x \in DeleteFaults : ConcDelete(r, x)
  \/ \E r \in 1..Len(conc.requests), x \in ResetFaults : ConcReset(r, x)

SpecConc == InitConc /\ [][NextConc]_vars

----------------------------------------------------------------------------
(* Properties *)

\* the stored chunks of a document
ChunksOf(doc_id) == {c \in chunks : c.doc_id = doc_id}

\* what a restart would load from the persisted file
Persisted == Repo_load_metadata(metadata_file)

\* the ids uuid4 has produced so far
Issued == 1..(next_id - 1)

\* C1: every Document of the metadata mapping has exactly chunks_count
\* stored chunks, and their chunk_index values are 0 .. chunks_count - 1.
C1_ChunksMatchCount ==
  app = "layered" =>
  \A id \in DOMAIN documents :
    /\ {c.chunk_index : c \in ChunksOf(id)} = 0..(documents[id].chunks_count - 1)
    /\ Cardinality(ChunksOf(id)) = documents[id].chunks_count

\* C2: a delete_document that returns True removes the chunks of that
\* document and no others and removes the id from the mapping; the chunks
\* of an id that has none never come back, and no query builds its context
\* from them.
C2_DeleteRemovesExactly ==
  [][ /\ (last'.op = "delete" /\ last'.ret = "True") =>
           /\ last'.doc_id \in DOMAIN documents
           /\ chunks' = {c \in chunks : c.doc_id # last'.doc_id}
           /\ last'.doc_id \notin DOMAIN documents'
      /\ \A id \in Issued :
           ChunksOf(id) = {} =>
             /\ \A c \in chunks' : c.doc_id # id
             /\ id \notin last'.answer.context ]_vars

\* a document with stored chunks was deleted while chunks of another
\* upload stay in the collection
C2_Witness ==
  /\ last.op = "delete" /\ last.ret = "True" /\ last.status = 200
  /\ last.doc_id \notin DOMAIN documents
  /\ \E c \in chunks : c.doc_id # last.doc_id

\* C3: every chunk of the collection carries the id of a Document of the
\* mapping, and every Document with chunks_count > 0 has stored chunks.
C3_StoresNeverDiverge ==
  app = "layered" =>
    /\ \A c \in chunks : c.doc_id \in DOMAIN documents
    /\ \A id \in DOMAIN documents :
         documents[id].chunks_count > 0 => ChunksOf(id) # {}

\* get_all_documents of the running application
GetAllDocuments ==
  IF app = "layered" THEN Repo_get_all_documents(Store)
  ELSE RAG_get_all_documents(Store)

\* C4 as stated: after any call of delete_all_documents the listing is
\* empty, the persisted mapping is empty and the collection holds no chunk.
C4_ResetAlwaysClears ==
  (app = "layered" /\ last.op = "reset") =>
    /\ GetAllDocuments = {}
    /\ Persisted = EmptyDocuments
    /\ chunks = {}

\* what a reset does guarantee: after a delete_all_documents that returns
\* True the listing is empty, the persisted file holds the empty mapping
\* and a search for any top_k returns no chunk
ResetTrueClears ==
  (last.op = "reset" /\ last.ret = "True") =>
    /\ GetAllDocuments = {}
    /\ metadata_file = FileOf(EmptyDocuments)
    /\ \A k \in 1..MaxTopK : Repo_search(Store, k) = {{}}

\* a reset succeeded after uploads had been processed
ResetTrueClears_Witness ==
  /\ last.op = "reset" /\ last.ret = "True" /\ last.status = 200
  /\ next_id > 1

\* C5: a query that returns while the metadata mapping is empty gives the
\* canned answer with no sources and does not call the generation backend.
C5_EmptyMappingCannedAnswer ==
  (last.op = "query" /\ last.status = 200 /\ documents = EmptyDocuments) =>
    /\ last.answer.answer = AnswerNoDocuments
    /\ last.answer.sources = {}
    /\ calls.generate = 0

\* C6: an upload that fails while embedding or storing chunk k ends in an
\* error after one attempt per chunk, adds exactly the chunks 0 .. k-1 of
\* its id, writes no Document to the mapping or the file; and an issued id
\* that is in neither never enters them.
C6_FailedUploadLeavesOrphans ==
  [][ /\ (last'.op = "upload" /\ last'.exc.msg \in {MsgEmbedding, MsgCollection}) =>
           LET k == calls'.embed - 1 IN
           /\ last'.status = 500
           /\ calls'.add = IF last'.exc.msg = MsgEmbedding THEN k ELSE k + 1
           /\ chunks \subseteq chunks'
           /\ \A c \in chunks' \ chunks : c.doc_id = last'.doc_id
           /\ {c.chunk_index : c \in chunks' \ chunks} = 0..(k - 1)
           /\ Cardinality(chunks' \ chunks) = k
           /\ documents' = documents
           /\ metadata_file' = metadata_file
           /\ last'.doc_id \notin DOMAIN documents'
           /\ last'.doc_id \notin DOMAIN Repo_load_metadata(metadata_file')
      /\ \A id \in Issued :
           (id \notin DOMAIN documents /\ id \notin DOMAIN Persisted) =>
             /\ id \notin DOMAIN documents'
             /\ id \notin DOMAIN Repo_load_metadata(metadata_file') ]_vars

\* the embedding of chunk 1 failed: chunk 0 is stored, no Document exists
C6_Witness ==
  /\ last.op = "upload" /\ last.exc.msg = MsgEmbedding /\ calls.embed = 2
  /\ ChunksOf(last.doc_id) # {}
  /\ last.doc_id \notin DOMAIN documents

\* C7: an encrypted PDF (one the reader opens and reports as encrypted, or
\* one it refuses with an error that mentions encryption), or a PDF without
\* extractable text, handed to the pipeline fails with a ValueError and HTTP 400 before any embedding or
\* collection call, and leaves the collection, the mapping and the file as
\* they were.
C7_InvalidPdfRejectedCleanly ==
  [][ ( /\ last'.op = "upload"
        /\ calls'.extract > 0
        /\ \/ last'.file.content.fmt = "cipher"
           \/ /\ last'.file.content.fmt = "pdf"
              /\ \/ last'.file.content.encrypted
                 \/ IsBlank(PagesText(last'.file.content.pages)) ) =>
          /\ last'.exc.type = "ValueError"
          /\ last'.status = 400
          /\ calls'.embed = 0 /\ calls'.add = 0
          /\ chunks' = chunks
          /\ documents' = documents
          /\ metadata_file' = metadata_file ]_vars

\* an encrypted PDF was refused while a document is stored
C7_Witness ==
  /\ last.op = "upload" /\ last.file.content.encrypted
  /\ calls.extract = 1 /\ last.status = 400
  /\ documents # EmptyDocuments /\ chunks # {}

\* the lower-cased part of a file name after its last dot
ExtensionOf(name) ==
  LET dots == {i \in 1..Len(name) : name[i] = "."} IN
  IF dots = {} THEN <<>>
  ELSE SubSeq(lower(name),
              (CHOOSE i \in dots : \A j \in dots : j <= i) + 1, Len(name))

\* C8: an upload whose extension is neither pdf nor txt gets HTTP 400
\* without any extraction, embedding or collection call and without a
\* change to the stores; whatever reaches the pipeline, on either entry
\* point, has the extension pdf or txt.
C8_UnsupportedExtensionRejected ==
  [][ last'.op = "upload" =>
        LET supported == ExtensionOf(last'.file.filename)
                           \in {<<"p", "d", "f">>, <<"t", "x", "t">>}
        IN  /\ ~supported =>
                 /\ last'.status = 400
                 /\ calls' = NoCalls
                 /\ chunks' = chunks
                 /\ documents' = documents
                 /\ metadata_file' = metadata_file
            /\ calls' # NoCalls => supported ]_vars

\* a .docx upload was refused while a document is stored
C8_Witness ==
  /\ last.op = "upload" /\ last.file.filename = NameR /\ last.status = 400
  /\ documents # EmptyDocuments /\ chunks # {}

\* C9: the upload of a 2500-character plain-text file to the layered
\* application, with no backend failure, returns a Document with
\* chunks_count = 4 and stores 4 chunks.
C9_PlainTextIngests ==
  ( /\ app = "layered"
    /\ last.op = "upload"
    /\ last.file = File(NameN, Plain2500)
    /\ last.exc.msg \notin BackendMessages ) =>
      /\ last.status = 200
      /\ last.document.chunks_count = 4
      /\ last.doc_id \in DOMAIN documents
      /\ Cardinality(ChunksOf(last.doc_id)) = 4

\* C10: between requests the persisted file holds exactly the in-memory
\* mapping, so a restart reloads what get_all_documents reported.
C10_WriteThrough == app = "layered" => Persisted = documents

\* C11: construction of the store never fails on the metadata file: after a
\* restart the mapping is empty when the file is absent or does not parse,
\* and otherwise holds exactly the members of the persisted JSON object.
C11_LoadFallsBackToEmpty ==
  [][last'.op = "restart" =>
       /\ last'.exc = NoExc
       /\ collection_live'
       /\ metadata_file' = metadata_file
       /\ IF metadata_file.state \in {"absent", "corrupt"}
          THEN documents' = EmptyDocuments
          ELSE /\ DOMAIN documents' = {m[1] : m \in metadata_file.obj}
               /\ \A m \in metadata_file.obj : documents'[m[1]] = m[2]]_vars

\* a restart over a truncated metadata.json while chunks are stored
C11_Witness ==
  /\ last.op = "restart"
  /\ metadata_file = FileCorrupt
  /\ documents = EmptyDocuments
  /\ chunks # {}

\* C12: delete_document of an id that is not in the mapping returns False
\* (404, no exception) and changes neither the mapping, nor the file, nor
\* any stored chunk.
C12_DeleteUnknownIsNoOp ==
  [][(last'.op = "delete" /\ last'.doc_id \notin DOMAIN documents) =>
       /\ last'.ret = "False"
       /\ last'.exc = NoExc
       /\ last'.status = 404
       /\ documents' = documents
       /\ metadata_file' = metadata_file
       /\ chunks' = chunks]_vars

\* an unknown id whose chunks an earlier failed upload left behind
C12_Witness ==
  /\ last.op = "delete"
  /\ last.status = 404
  /\ last.doc_id \notin DOMAIN documents
  /\ ChunksOf(last.doc_id) # {}

\* a bad upload: unsupported type, encrypted, unreadable, or without any
\* extractable text
BadUpload(file) ==
  \/ ExtensionOf(file.filename) \notin {<<"p", "d", "f">>, <<"t", "x", "t">>}
  \/ file.content.encrypted
  \/ file.content.fmt \notin {"pdf", "plain"}
  \/ IsBlank(PagesText(file.content.pages))

\* C13: every bad upload gets HTTP 400, every backend failure during
\* embedding, vector storage or metadata persistence gets HTTP 500 with the
\* causal message, and no bad upload gets HTTP 500.
C13_BadUploadIsClientError ==
  last.op = "upload" =>
    /\ BadUpload(last.file) => last.status = 400
    /\ last.exc.msg \in BackendMessages => last.status = 500
    /\ last.status = 500 => ~BadUpload(last.file)

\* C18: a query cites only filenames of Documents that get_all_documents
\* lists, and builds its context only from chunks of listed Documents.
C18_SourcesAreListed ==
  (app = "layered" /\ last.op = "query" /\ last.status = 200) =>
    /\ last.answer.context \subseteq DOMAIN documents
    /\ last.answer.sources
         \subseteq {d.filename : d \in GetAllDocuments}

\* the run of the chunker has 0 <= overlap < chunk_size
ValidConfig ==
  0 <= chunker.overlap /\ chunker.overlap < chunker.chunk_size

\* the characters of the text being chunked
T == Decode(chunker.text)

Stride == chunker.chunk_size - chunker.overlap

\* 0, (size - overlap), 2 * (size - overlap), ... below len(T)
WindowStarts == {s \in 0..(Len(T) - 1) : s % Stride = 0}

\* T[s : s + size]
Window(s) ==
  [i \in 1..Min(chunker.chunk_size, Len(T) - s) |-> T[s + i]]

\* the starts of the windows that are not whitespace only
KeptStarts ==
  {s \in WindowStarts : \E i \in DOMAIN Window(s) : Window(s)[i] \notin Whitespace}

\* the j-th smallest kept start
NthKept(j) ==
  CHOOSE s \in KeptStarts : Cardinality({u \in KeptStarts : u < s}) = j - 1

\* C14: with 0 <= overlap < size the loop visits the starts 0, size-overlap,
\* 2*(size-overlap), ... below len(T) and the returned list holds, in
\* increasing order of start, exactly the windows T[s : s+size] that are
\* not whitespace only, each of at most size characters; the empty text and
\* a whitespace-only text give the empty list.
C14_ChunksAreTheKeptWindows ==
  ValidConfig =>
    /\ chunker.pc = "while" =>
          /\ chunker.start = chunker.iterations * Stride
          /\ chunker.iterations <= Cardinality(WindowStarts)
          /\ chunker.iterations < MaxIterations
    /\ chunker.pc = "return" =>
          /\ chunker.iterations = Cardinality(WindowStarts)
          /\ Len(chunker.chunks) = Cardinality(KeptStarts)
          /\ \A j \in 1..Len(chunker.chunks) :
                /\ Decode(chunker.chunks[j]) = Window(NthKept(j))
                /\ TextLen(chunker.chunks[j]) <= chunker.chunk_size
          /\ (\A i \in 1..Len(T) : T[i] \in Whitespace)
                => chunker.chunks = <<>>

\* overlapping windows of which one in the middle was dropped
C14_Witness ==
  /\ chunker.pc = "return"
  /\ ValidConfig /\ chunker.overlap > 0
  /\ Len(chunker.chunks) >= 2
  /\ \E s \in WindowStarts \ KeptStarts :
        \E a, b \in KeptStarts : a < s /\ s < b

\* the characters cs without the last k
DropLast(cs, k) == SubSeq(cs, 1, Max(Len(cs) - k, 0))

\* the first k characters of cs
KeepFirst(cs, k) == SubSeq(cs, 1, Min(Len(cs), k))

RECURSIVE JoinDroppingLast(_, _)
\* every chunk but the final one without its last k characters, joined
JoinDroppingLast(cs, k) ==
  IF cs = <<>> THEN <<>>
  ELSE IF Len(cs) = 1 THEN Decode(cs[1])
  ELSE DropLast(Decode(Head(cs)), k) \o JoinDroppingLast(Tail(cs), k)

RECURSIVE JoinKeepingFirst(_, _)
\* the first k characters of every chunk but the final one, joined
JoinKeepingFirst(cs, k) ==
  IF cs = <<>> THEN <<>>
  ELSE IF Len(cs) = 1 THEN Decode(cs[1])
  ELSE KeepFirst(Decode(Head(cs)), k) \o JoinKeepingFirst(Tail(cs), k)

\* C15 as stated, on the texts of which no window is dropped: dropping the
\* last overlap characters of every non-final chunk and joining the results
\* with the final chunk gives T.
C15_RoundTripDroppingOverlap ==
  (chunker.pc = "return" /\ ValidConfig /\ KeptStarts = WindowStarts) =>
    JoinDroppingLast(chunker.chunks, chunker.overlap) = T

\* C15 (amended): when no window was dropped, the first size - overlap
\* characters of every non-final chunk joined with the whole final chunk
\* give T.
C15_RoundTripByStride ==
  (chunker.pc = "return" /\ ValidConfig /\ KeptStarts = WindowStarts) =>
    JoinKeepingFirst(chunker.chunks, Stride) = T

\* no window dropped, and a non-final chunk that the end of the text cut
\* shorter than chunk_size
C15_Witness ==
  /\ chunker.pc = "return"
  /\ ValidConfig /\ KeptStarts = WindowStarts
  /\ \E j \in 1..(Len(chunker.chunks) - 1) :
        TextLen(chunker.chunks[j]) < chunker.chunk_size
  /\ JoinKeepingFirst(chunker.chunks, Stride) = T

\* size <= 0 or overlap >= size
DegenerateConfig ==
  chunker.chunk_size <= 0 \/ chunker.overlap >= chunker.chunk_size

\* C16: with size <= 0 or overlap >= size, chunking a non-empty text fails
\* before the first pass of the loop: no window is examined, no chunk is
\* emitted and no list is returned.
C16_DegenerateConfigFailsFast ==
  (DegenerateConfig /\ chunker.text # <<>>) =>
    /\ chunker.iterations = 0
    /\ chunker.chunks = <<>>
    /\ chunker.pc # "return"

\* the two stores hold the same mapping, file content and chunk records,
\* and list the same Documents
TwinStoresAgree ==
  /\ twin.store.documents = documents
  /\ twin.store.metadata_file = metadata_file
  /\ twin.store.chunks = chunks
  /\ RAG_get_all_documents(twin.store) = Repo_get_all_documents(Store)

\* the two calls returned the same value
TwinReturnsAgree ==
  /\ twin.ret = last.ret
  /\ twin.document = last.document
  /\ twin.answer = last.answer

\* C19 as stated: after every step the RAGSystem and the layered services
\* have returned the same result or raised the same error, and hold the
\* same mapping, file content and chunks.
C19_TwinsAgree ==
  /\ TwinStoresAgree
  /\ TwinReturnsAgree
  /\ twin.exc = last.exc

\* C19 (amended): the same, except that the ValueError for a PDF without
\* extractable text carries a longer message in the RAGSystem.
C19_TwinsAgreeUpToNoTextMessage ==
  /\ TwinStoresAgree
  /\ TwinReturnsAgree
  /\ twin.exc.type = last.exc.type
  /\ \/ twin.exc.msg = last.exc.msg
     \/ twin.exc.msg = MsgNoTextRAG /\ last.exc.msg = MsgNoText

\* both have a Document stored and both have just refused a scanned PDF
C19_Witness ==
  /\ twin.on
  /\ last.op = "upload"
  /\ last.exc = Exc("ValueError", MsgNoText)
  /\ twin.exc = Exc("ValueError", MsgNoTextRAG)
  /\ documents # EmptyDocuments /\ twin.store.chunks # {}

\* every accepted request has been answered
AllAnswered ==
  /\ conc.requests # <<>>
  /\ \A r \in 1..Len(conc.requests) : conc.requests[r].pc = "done"

\* file and mapping agree, the uploads answered 200 and not deleted since
\* are listed, no deleted id is listed, and every listed Document has
\* chunks_count chunks
ConcOutcome ==
  /\ Persisted = documents
  /\ (conc.uploaded \ conc.deleted) \subseteq DOMAIN documents
  /\ conc.deleted \cap DOMAIN documents = {}
  /\ \A id \in DOMAIN documents :
        Cardinality(ChunksOf(id)) = documents[id].chunks_count

\* C17: whatever the order in which the event loop runs the handlers of
\* concurrent upload, delete and reset requests, once all of them are
\* answered the file equals the mapping, no completed upload is lost, no
\* deleted Document is back and every listed Document has chunks_count
\* chunks.
C17_ConcurrentCallsSerialize == AllAnswered => ConcOutcome

\* the same for the runs in which no backend call has raised
ConcOutcomeWithoutFailure == (AllAnswered /\ ~conc.failed) => ConcOutcome

\* two uploads and a reset in flight together, all answered without failure
ConcOutcomeWithoutFailure_Witness ==
  /\ AllAnswered /\ ~conc.failed
  /\ Len(conc.requests) = MaxRequests
  /\ conc.uploaded # {} /\ conc.deleted # {}
  /\ documents # EmptyDocuments

====
